---- MODULE Spec2Model ----
(***************************************************************************)
(* Model of parascopy/inner/common.py: get_regions,                        *)
(* _fetch_regions_wo_duplicates and fetch_iterator.                        *)
(*                                                                         *)
(* The genome (genome.py), NamedInterval (genome.py) and the indexed       *)
(* source (pysam) are collaborators whose code is not part of common.py;   *)
(* they are modelled from their documented contracts.                      *)
(***************************************************************************)
EXTENDS Integers, Sequences, FiniteSets, TLC

VARIABLES
    args,           \* [regions, regions_file, lines]: the caller's selection and
                    \* the lines of the file regions_file names
    no_duplicates,  \* fetch_iterator's no_duplicates argument
    src,            \* content of the indexed source: a set of records
    pc,             \* "start" | "error" | "all" | "chain" | "loop" | "iter" | "done"
    regions,        \* the list get_regions returned
    ri,             \* index (1-based) of the region being processed
    iters,          \* open fetch iterators: query id -> records still to deliver
    issued,         \* query ids in the order obj.fetch was called (0: fetch())
    same_chrom,     \* local of _fetch_regions_wo_duplicates
    entry,          \* local of _fetch_regions_wo_duplicates (loop variable)
    prev_chrom_id,  \* local of _fetch_regions_wo_duplicates
    prev_start,     \* local of _fetch_regions_wo_duplicates
    out             \* records handed to the consumer: [rec, ri]

vars == <<args, no_duplicates, src, pc, regions, ri, iters, issued,
          same_chrom, entry, prev_chrom_id, prev_start, out>>

None == "None"

\* prev_chrom_id = None (line 187): no chromosome id
NoChrom == -1

\* entry = None (line 193); an entry is held as <<record>>
NoEntry == <<>>

Max(a, b) == IF a >= b THEN a ELSE b
Min(a, b) == IF a <= b THEN a ELSE b

\* ------------------------------------------------------------ bounds
MaxRegions == 3     \* most lines of a well-formed region file
MaxRecs == 2        \* most records of an enumerated source
MaxRaw == 2         \* most entries of a raw (possibly malformed) selection

\* ------------------------------------------------------------ genome
chrom_names == <<"chr1", "chr2">>
chrom_lengths == <<3, 1>>

ChromIds == 0 .. (Len(chrom_names) - 1)

KnownChrom(name) == \E i \in 1..Len(chrom_names) : chrom_names[i] = name

\* genome.chrom_id(name); raises for an unknown name (callers test KnownChrom)
chrom_id(name) == (CHOOSE i \in 1..Len(chrom_names) : chrom_names[i] = name) - 1

chrom_len(id) == chrom_lengths[id + 1]

chrom_name(id) == chrom_names[id + 1]

\* ------------------------------------------------------------ int()
Numerals == <<"0", "1", "2", "3", "4", "5", "6", "7", "8", "9">>

IsIntStr(s) == \E i \in 1..Len(Numerals) : Numerals[i] = s

\* int(s) for a decimal numeral; raises ValueError otherwise (callers test IsIntStr)
IntOf(s) == (CHOOSE i \in 1..Len(Numerals) : Numerals[i] = s) - 1

NumStr(n) == Numerals[n + 1]

\* ------------------------------------------------------------ NamedInterval
NamedInterval(cid, start, end, name) ==
    [chrom_id |-> cid, start |-> start, end |-> end, name |-> name]

\* interval.trim(genome)
trim(iv) ==
    [iv EXCEPT !.start = Max(0, iv.start),
               !.end = Min(iv.end, chrom_len(iv.chrom_id))]

\* NamedInterval.__lt__: order by (chrom_id, start, end)
IntervalLess(a, b) ==
    \/ a.chrom_id < b.chrom_id
    \/ a.chrom_id = b.chrom_id /\ a.start < b.start
    \/ a.chrom_id = b.chrom_id /\ a.start = b.start /\ a.end < b.end

\* A region string: name, or name ":" start "-" end (range = <<start, end>>)
RegionStr(name, range) == [name |-> name, range |-> range]

HasColon(region) == region.range # <<>>

ParseOk(region) ==
    /\ KnownChrom(region.name)
    /\ IsIntStr(region.range[1])
    /\ IsIntStr(region.range[2])
    /\ IntOf(region.range[1]) <= IntOf(region.range[2])

\* NamedInterval.parse(region, genome)
parse(region) ==
    NamedInterval(chrom_id(region.name), IntOf(region.range[1]),
                  IntOf(region.range[2]), None)

\* ------------------------------------------------------------ get_regions
\* A line of the region file: hash is line.startswith('#'), fields is
\* line.strip().split('\t') (a blank line splits into the one field "").
Line(hash, fields) == [hash |-> hash, fields |-> fields]

Raise == [ok |-> FALSE, intervals |-> <<>>]

Return(intervals) == [ok |-> TRUE, intervals |-> intervals]

\* lines 153-158 run without an exception
RegionOk(region) ==
    IF HasColon(region) THEN ParseOk(region) ELSE KnownChrom(region.name)

\* lines 153-159
RegionInterval(region) ==
    trim(IF HasColon(region)
         THEN parse(region)
         ELSE NamedInterval(chrom_id(region.name), 0,
                            chrom_len(chrom_id(region.name)), None))

\* lines 168-172 run without an exception
LineOk(line) ==
    /\ KnownChrom(line.fields[1])
    /\ Len(line.fields) >= 3
    /\ IsIntStr(line.fields[2])
    /\ IsIntStr(line.fields[3])

\* lines 168-174
LineInterval(line) ==
    trim(NamedInterval(chrom_id(line.fields[1]), IntOf(line.fields[2]),
                       IntOf(line.fields[3]),
                       IF Len(line.fields) > 3 THEN line.fields[4] ELSE None))

RECURSIVE ReadRegions(_, _)
\* the loop of lines 152-160
ReadRegions(rs, intervals) ==
    IF rs = <<>> THEN Return(intervals)
    ELSE IF ~RegionOk(Head(rs)) THEN Raise
    ELSE ReadRegions(Tail(rs), Append(intervals, RegionInterval(Head(rs))))

RECURSIVE ReadLinesSkipBad(_, _)
\* faulty variant: a malformed line is skipped instead of raising
ReadLinesSkipBad(lines, intervals) ==
    IF lines = <<>> THEN Return(intervals)
    ELSE IF Head(lines).hash \/ ~LineOk(Head(lines))
         THEN ReadLinesSkipBad(Tail(lines), intervals)
    ELSE ReadLinesSkipBad(Tail(lines), Append(intervals, LineInterval(Head(lines))))

RECURSIVE ReadLines(_, _)
\* the loop of lines 164-175
ReadLines(lines, intervals) ==
    IF lines = <<>> THEN Return(intervals)
    ELSE IF Head(lines).hash THEN ReadLines(Tail(lines), intervals)
    ELSE IF ~LineOk(Head(lines)) THEN Raise
    ELSE ReadLines(Tail(lines), Append(intervals, LineInterval(Head(lines))))

\* lines 178-179
WholeGenome ==
    [i \in 1..Len(chrom_lengths) |->
        NamedInterval(i - 1, 0, chrom_lengths[i], chrom_name(i - 1))]

\* insertion of x behind every element that is not greater (stable)
RECURSIVE Insert(_, _)
Insert(x, s) ==
    IF s = <<>> THEN <<x>>
    ELSE IF IntervalLess(x, Head(s)) THEN <<x>> \o s
    ELSE <<Head(s)>> \o Insert(x, Tail(s))

RECURSIVE SortFrom(_, _)
SortFrom(s, acc) ==
    IF s = <<>> THEN acc ELSE SortFrom(Tail(s), Insert(Head(s), acc))

\* faulty variant: the list is left in input order
Unsorted(intervals) == intervals

\* intervals.sort()
Sort(intervals) == SortFrom(intervals, <<>>)

\* get_regions(args, genome, sort)
get_regions(a, sort) ==
    LET r == IF a.regions # <<>> THEN ReadRegions(a.regions, <<>>)
             ELSE IF a.regions_file # None THEN ReadLines(a.lines, <<>>)
             ELSE Return(WholeGenome)
    IN  IF r.ok /\ sort THEN Return(Sort(r.intervals)) ELSE r

\* ------------------------------------------------------------ the indexed source
Record(cid, start, end) == [chrom_id |-> cid, start |-> start, end |-> end]

RecLess(a, b) ==
    \/ a.chrom_id < b.chrom_id
    \/ a.chrom_id = b.chrom_id /\ a.start < b.start
    \/ a.chrom_id = b.chrom_id /\ a.start = b.start /\ a.end < b.end

RECURSIVE InFileOrder(_)
\* the records of a set in the order of the (coordinate-sorted) file
InFileOrder(recs) ==
    IF recs = {} THEN <<>>
    ELSE LET m == CHOOSE r \in recs : \A q \in recs \ {r} : RecLess(r, q)
         IN  <<m>> \o InFileOrder(recs \ {m})

Overlaps(rec, start, end) == start < end /\ rec.start < end /\ rec.end > start

\* obj.fetch(chrom_name, start, end)
Fetch(source, name, start, end) ==
    InFileOrder({r \in source :
        r.chrom_id = chrom_id(name) /\ Overlaps(r, start, end)})

\* obj.fetch()
FetchAll(source) == InFileOrder(source)

FetchRegion(source, region) ==
    Fetch(source, chrom_name(region.chrom_id), region.start, region.end)

\* ------------------------------------------------------------ _fetch_regions_wo_duplicates
\* faulty variant: any earlier region counts as the same chromosome
SameChromAnyPrev(region, prev) == prev # NoChrom

\* line 190
SameChrom(region, prev) == region.chrom_id = prev

\* faulty variant: the cursor survives a change of chromosome
RunStartKept(same, start) == start

\* lines 191-192
RunStart(same, start) == IF ~same THEN -1 ELSE start

\* lines 198, 204 (start_attr=True: the record's start attribute)
StartOf(e) == e.start

\* faulty variant: a record is never skipped
SuppressedNever(same, e, start) == FALSE

\* faulty variant: strict comparison
SuppressedStrict(same, e, start) == same /\ StartOf(e) < start

\* lines 197-200: the record is skipped
Suppressed(same, e, start) == same /\ StartOf(e) <= start

\* faulty variant: a region without records clears the cursor
CursorAfterCleared(e, start) ==
    IF e # NoEntry THEN Max(start, StartOf(e[1])) ELSE -1

\* lines 203-205
CursorAfter(e, start) ==
    IF e # NoEntry THEN Max(start, StartOf(e[1])) ELSE start

Cursor(chrom, start) == [prev_chrom_id |-> chrom, prev_start |-> start]

\* One iteration of the loop of line 189 on the records `fetched`:
\* what it yields and the cursor it leaves.
ProcessRegion(st, region, fetched) ==
    LET same == SameChrom(region, st.cursor.prev_chrom_id)
        start == RunStart(same, st.cursor.prev_start)
        last == IF fetched = <<>> THEN NoEntry ELSE <<fetched[Len(fetched)]>>
    IN  [out |-> st.out \o SelectSeq(fetched, LAMBDA e : ~Suppressed(same, e, start)),
         cursor |-> Cursor(region.chrom_id, CursorAfter(last, start))]

RECURSIVE Generate(_, _, _)
\* The whole generator on regions rs whose fetches return fs, from state st
Generate(rs, fs, st) ==
    IF rs = <<>> THEN st
    ELSE Generate(Tail(rs), Tail(fs), ProcessRegion(st, Head(rs), Head(fs)))

Fresh == [out |-> <<>>, cursor |-> Cursor(NoChrom, -1)]

\* ------------------------------------------------------------ fetch_iterator
\* faulty variant: the fast path is never taken
NoSelectionNever(a) == FALSE

\* line 218
NoSelection(a) == a.regions = <<>> /\ a.regions_file = None

Yield(rec, i) == [rec |-> rec, ri |-> i]

NoIters == [i \in {} |-> <<>>]

Close(its, i) == [j \in DOMAIN its \ {i} |-> its[j]]

Advance(its, i) == [its EXCEPT ![i] = Tail(its[i])]

\* fetch_iterator(obj, args, genome, no_duplicates): lines 218-224. The call
\* itself runs get_regions and, for no_duplicates=False, every obj.fetch of
\* the argument list of itertools.chain; the generator of line 224 has not
\* started yet.
Call ==
    /\ pc = "start"
    /\ UNCHANGED <<args, no_duplicates, src, same_chrom, entry,
                   prev_chrom_id, prev_start, out>>
    /\ IF NoSelection(args)
       THEN /\ pc' = "all"
            /\ iters' = (0 :> FetchAll(src))
            /\ issued' = <<0>>
            /\ UNCHANGED <<regions, ri>>
       ELSE LET r == get_regions(args, TRUE)
            IN  IF ~r.ok
                THEN /\ pc' = "error"
                     /\ UNCHANGED <<regions, ri, iters, issued>>
                ELSE /\ regions' = r.intervals
                     /\ IF ~no_duplicates
                        THEN /\ pc' = "chain"
                             /\ iters' = [i \in 1..Len(r.intervals) |->
                                            FetchRegion(src, r.intervals[i])]
                             /\ issued' = [i \in 1..Len(r.intervals) |-> i]
                             /\ ri' = 1
                        ELSE /\ pc' = "loop"
                             /\ UNCHANGED <<ri, iters, issued>>

\* next() on the iterator obj.fetch() returned
AllNext ==
    /\ pc = "all"
    /\ UNCHANGED <<args, no_duplicates, src, regions, ri, issued, same_chrom,
                   entry, prev_chrom_id, prev_start>>
    /\ IF iters[0] = <<>>
       THEN /\ pc' = "done"
            /\ iters' = Close(iters, 0)
            /\ out' = out
       ELSE /\ pc' = pc
            /\ iters' = Advance(iters, 0)
            /\ out' = Append(out, Yield(Head(iters[0]), 0))

\* itertools.chain: a step of next(): the current iterator delivers a record,
\* or is exhausted and the next one becomes current
ChainNext ==
    /\ pc = "chain"
    /\ UNCHANGED <<args, no_duplicates, src, regions, issued, same_chrom,
                   entry, prev_chrom_id, prev_start>>
    /\ IF ri > Len(regions)
       THEN /\ pc' = "done"
            /\ UNCHANGED <<ri, iters, out>>
       ELSE IF iters[ri] = <<>>
       THEN /\ ri' = ri + 1
            /\ iters' = Close(iters, ri)
            /\ UNCHANGED <<pc, out>>
       ELSE /\ iters' = Advance(iters, ri)
            /\ out' = Append(out, Yield(Head(iters[ri]), ri))
            /\ UNCHANGED <<pc, ri>>

\* lines 189-196: the next region is taken and its fetch issued
StartRegion ==
    /\ pc = "loop"
    /\ ri < Len(regions)
    /\ LET region == regions[ri + 1]
           same == SameChrom(region, prev_chrom_id)
       IN  /\ same_chrom' = same
           /\ prev_start' = RunStart(same, prev_start)
           /\ entry' = NoEntry
           /\ iters' = ((ri + 1) :> FetchRegion(src, region))
           /\ issued' = Append(issued, ri + 1)
    /\ ri' = ri + 1
    /\ pc' = "iter"
    /\ UNCHANGED <<args, no_duplicates, src, regions, prev_chrom_id, out>>

\* lines 196-201: the fetch delivers a record, which is skipped or yielded
NextEntry ==
    /\ pc = "iter"
    /\ iters[ri] # <<>>
    /\ LET e == Head(iters[ri])
       IN  /\ entry' = <<e>>
           /\ out' = IF Suppressed(same_chrom, e, prev_start)
                     THEN out ELSE Append(out, Yield(e, ri))
    /\ iters' = Advance(iters, ri)
    /\ UNCHANGED <<args, no_duplicates, src, pc, regions, ri, issued,
                   same_chrom, prev_chrom_id, prev_start>>

\* lines 203-206: the fetch is exhausted
EndRegion ==
    /\ pc = "iter"
    /\ iters[ri] = <<>>
    /\ prev_start' = CursorAfter(entry, prev_start)
    /\ prev_chrom_id' = regions[ri].chrom_id
    /\ iters' = Close(iters, ri)
    /\ pc' = "loop"
    /\ UNCHANGED <<args, no_duplicates, src, regions, ri, issued, same_chrom,
                   entry, out>>

\* line 189 with no region left: the generator returns
Finish ==
    /\ pc = "loop"
    /\ ri = Len(regions)
    /\ pc' = "done"
    /\ UNCHANGED <<args, no_duplicates, src, regions, ri, iters, issued,
                   same_chrom, entry, prev_chrom_id, prev_start, out>>

Next ==
    \/ Call
    \/ AllNext
    \/ ChainNext
    \/ StartRegion
    \/ NextEntry
    \/ EndRegion
    \/ Finish

\* ------------------------------------------------------------ inputs
SeqsUpTo(S, n) == UNION {[1..k -> S] : k \in 0..n}

Positions(c) == 0 .. chrom_len(c)

RecordUniverse ==
    {r \in UNION {{Record(c, s, e) : s \in Positions(c), e \in Positions(c)} :
                  c \in ChromIds} : r.start < r.end}

Sources == {S \in SUBSET RecordUniverse : Cardinality(S) <= MaxRecs}

Args(rs, file, lines) == [regions |-> rs, regions_file |-> file, lines |-> lines]

\* well-formed lines: every interval of every chromosome
ValidLines ==
    {l \in UNION {{Line(FALSE, <<chrom_name(c), NumStr(s), NumStr(e)>>) :
                     s \in Positions(c), e \in Positions(c)} : c \in ChromIds} :
        IntOf(l.fields[2]) <= IntOf(l.fields[3])}

\* region files already in (chromosome, start, end) order
SortedFiles ==
    {f \in SeqsUpTo(ValidLines, MaxRegions) :
        \A i \in 1..(Len(f) - 1) :
            ~IntervalLess(LineInterval(f[i + 1]), LineInterval(f[i]))}

\* raw region strings and raw lines, malformed ones among them
RawRegions ==
    { RegionStr("chr1", <<>>), RegionStr("chr2", <<>>), RegionStr("chrX", <<>>),
      RegionStr("chr1", <<"0", "2">>), RegionStr("chr1", <<"1", "4">>),
      RegionStr("chr2", <<"0", "1">>), RegionStr("chr1", <<"x", "2">>),
      RegionStr("chrX", <<"0", "1">>) }

RawLines ==
    { Line(TRUE, <<"# regions">>), Line(FALSE, <<"">>),
      Line(FALSE, <<"chr1", "0", "2">>), Line(FALSE, <<"chr1", "1", "4">>),
      Line(FALSE, <<"chr2", "0", "1", "gene">>), Line(FALSE, <<"chrX", "0", "1">>),
      Line(FALSE, <<"chr1", "x", "2">>), Line(FALSE, <<"chr1">>) }

RawSource == {Record(0, 0, 2), Record(0, 1, 3), Record(1, 0, 1)}

InitLocals ==
    /\ pc = "start"
    /\ regions = <<>>
    /\ ri = 0
    /\ iters = NoIters
    /\ issued = <<>>
    /\ same_chrom = FALSE
    /\ entry = NoEntry
    /\ prev_chrom_id = NoChrom
    /\ prev_start = -1
    /\ out = <<>>

\* a well-formed sorted region file (or no selection) over every small source
InitFetch ==
    /\ args \in {Args(<<>>, None, <<>>)}
                \cup {Args(<<>>, "regions.bed", f) : f \in SortedFiles}
    /\ src \in Sources

\* a raw selection over one source
InitParse ==
    /\ args \in {Args(rs, None, <<>>) : rs \in SeqsUpTo(RawRegions, MaxRaw)}
                \cup {Args(rs, "regions.bed", <<Line(FALSE, <<"chr1", "0", "1">>)>>) :
                        rs \in SeqsUpTo(RawRegions, MaxRaw)}
                \cup {Args(<<>>, "regions.bed", f) : f \in SeqsUpTo(RawLines, MaxRaw)}
    /\ src = RawSource

Init ==
    /\ InitFetch \/ InitParse
    /\ no_duplicates \in BOOLEAN
    /\ InitLocals

Spec == Init /\ [][Next]_vars

\* ------------------------------------------------------------ vocabulary of the claims
Range(f) == {f[i] : i \in DOMAIN f}

OutRecs == [k \in DOMAIN out |-> out[k].rec]

\* the records yielded while region i was processed
YieldedIn(i) == SelectSeq(out, LAMBDA y : y.ri = i)

Fetched(i) == FetchRegion(src, regions[i])

Selected == args.regions # <<>> \/ args.regions_file # None

\* the iteration over regions has been set up (get_regions succeeded)
Iterating == Selected /\ pc \notin {"start", "error"}

DedupMode == Iterating /\ no_duplicates

ChainMode == Iterating /\ ~no_duplicates

IsSorted(rs) ==
    \A i, j \in DOMAIN rs : i < j => ~IntervalLess(rs[j], rs[i])

NonOverlapping(rs) ==
    \A i, j \in DOMAIN rs :
        (i < j /\ rs[i].chrom_id = rs[j].chrom_id) => rs[i].end <= rs[j].start

FirstOfRun(i) == i = 1 \/ regions[i].chrom_id # regions[i - 1].chrom_id

\* region i has been processed to its end
Completed(i) == i < ri \/ (i = ri /\ pc \in {"loop", "done"})

Times(r, seq) == Cardinality({k \in DOMAIN seq : seq[k] = r})

RECURSIVE Concat(_)
Concat(ss) == IF ss = <<>> THEN <<>> ELSE Head(ss) \o Concat(Tail(ss))

\* ------------------------------------------------------------ C1
ExampleA == NamedInterval(0, 0, 100, None)

ExampleB == NamedInterval(0, 50, 150, None)

At(start) == Record(0, start, start + 1)

\* C1: in dedup mode no record is yielded twice, and a record yielded in a
\* region after the first of a chromosome run starts after every record an
\* earlier region of that run returned (its start exceeds prev_start); the
\* fetches [10,60,90] for A=[0,100) and [60,90,120] for B=[50,150) yield
\* exactly [10,60,90,120].
C1_DedupYieldsAtMostOnce ==
    /\ DedupMode =>
        /\ \A i, j \in DOMAIN out : i < j => out[i].rec # out[j].rec
        /\ \A k \in DOMAIN out : \A i \in 1..(out[k].ri - 1) :
              regions[i].chrom_id = regions[out[k].ri].chrom_id =>
                  \A r \in Range(Fetched(i)) : r.start < out[k].rec.start
    /\ Generate(<<ExampleA, ExampleB>>,
                << <<At(10), At(60), At(90)>>, <<At(60), At(90), At(120)>> >>,
                Fresh).out = <<At(10), At(60), At(90), At(120)>>

\* C1 witness: a finished dedup run in which a record returned for two
\* regions was yielded, and the later region also yielded a record of its own.
C1_Witness ==
    /\ DedupMode /\ pc = "done"
    /\ \E i, j \in DOMAIN regions :
        /\ i < j
        /\ Range(Fetched(i)) \cap Range(Fetched(j)) # {}
        /\ YieldedIn(i) # <<>>
        /\ YieldedIn(j) # <<>>

\* ------------------------------------------------------------ C2
\* C2: at no point are two queries against the source open at the same
\* time (the fetch of region N+1 is issued after region N is drained).
C2_OneQueryAtATime == Cardinality(DOMAIN iters) <= 1

\* ------------------------------------------------------------ C3
\* the selection holds no region: no region string, and no region file or a
\* region file of comment lines only
NoRegionSelected ==
    /\ args.regions = <<>>
    /\ \A i \in DOMAIN args.lines : args.lines[i].hash

\* C3 as stated: with no region selected the output is the sequence of
\* fetch() and no range query is issued.
C3_NoRegionsIsFetchAll ==
    (pc = "done" /\ NoRegionSelected) =>
        /\ OutRecs = FetchAll(src)
        /\ \A i \in DOMAIN issued : issued[i] = 0

\* C3 amended: with neither region strings nor a region file supplied, no
\* range query is issued and the output is the sequence of fetch().
C3_NoSelectionIsFetchAll ==
    (args.regions = <<>> /\ args.regions_file = None) =>
        /\ pc # "error"
        /\ \A i \in DOMAIN issued : issued[i] = 0
        /\ pc = "done" => OutRecs = FetchAll(src)

\* C3 witness: a finished run without selection that delivered the source.
C3_Witness ==
    /\ args.regions = <<>> /\ args.regions_file = None
    /\ pc = "done"
    /\ Len(out) >= 2
    /\ issued = <<0>>

\* ------------------------------------------------------------ C4
OutOrdered ==
    \A i, j \in DOMAIN out : i < j =>
        /\ out[i].rec.chrom_id <= out[j].rec.chrom_id
        /\ out[i].ri <= out[j].ri
        /\ out[i].rec.chrom_id = out[j].rec.chrom_id =>
               out[i].rec.start <= out[j].rec.start

\* every record a fetch returns starts inside the fetched region
StartsInside ==
    \A i \in DOMAIN regions : \A r \in Range(Fetched(i)) :
        r.start >= regions[i].start

C5_ChromSwitchReset ==
    DedupMode => \A i \in DOMAIN regions : FirstOfRun(i) =>
        /\ (pc = "iter" /\ ri = i) => (~same_chrom /\ prev_start = -1)
        /\ Completed(i) => [k \in DOMAIN YieldedIn(i) |-> YieldedIn(i)[k].rec] = Fetched(i)

\* C5 witness: a record of the second chromosome was yielded at a start
\* already yielded for the first chromosome.
C5_Witness ==
    /\ DedupMode /\ pc = "done"
    /\ \E a, b \in Range(OutRecs) :
        a.chrom_id = 0 /\ b.chrom_id = 1 /\ a.start = b.start

\* ------------------------------------------------------------ C6
Empty(region) == region.start = region.end

Fetches(rs) == [i \in DOMAIN rs |-> FetchRegion(src, rs[i])]

\* the generator run to its end on regions rs
Run(rs) == Generate(rs, Fetches(rs), Fresh)

Prefix(rs, k) == SubSeq(rs, 1, k)

Remove(rs, k) == SubSeq(rs, 1, k - 1) \o SubSeq(rs, k + 1, Len(rs))

UnparsableRegion(region) ==
    \/ ~KnownChrom(region.name)
    \/ HasColon(region) /\ ~(IsIntStr(region.range[1]) /\ IsIntStr(region.range[2]))

UnparsableLine(line) ==
    /\ ~line.hash
    /\ Len(line.fields) >= 3
    /\ \/ ~KnownChrom(line.fields[1])
       \/ ~IsIntStr(line.fields[2])
       \/ ~IsIntStr(line.fields[3])

ParseFailure ==
    IF args.regions # <<>>
    THEN \E i \in DOMAIN args.regions : UnparsableRegion(args.regions[i])
    ELSE args.regions_file # None
         /\ \E i \in DOMAIN args.lines : UnparsableLine(args.lines[i])

\* C7: a selection with an entry that fails to parse ends the call in an
\* error, with no region list and before any fetch; an error never follows
\* a fetch.
C7_FailFast ==
    /\ (ParseFailure /\ pc # "start") => pc = "error"
    /\ pc = "error" => (regions = <<>> /\ issued = <<>> /\ iters = NoIters /\ out = <<>>)

\* C7 witness: the call failed on the second line of a region file whose
\* first line is well-formed.
C7_Witness ==
    /\ pc = "error"
    /\ args.regions = <<>>
    /\ Len(args.lines) = 2
    /\ ~args.lines[1].hash /\ LineOk(args.lines[1])
    /\ UnparsableLine(args.lines[2])

\* ------------------------------------------------------------ C8
Blank(line) == ~line.hash /\ line.fields = <<"">>

DataLines == SelectSeq(args.lines, LAMBDA l : ~l.hash /\ ~Blank(l))

\* C8: from a region file get_regions returns one trimmed interval per line
\* that is neither a comment nor blank; comment lines and blank lines give
\* no interval and do not abort the build.
C8_CommentAndBlankLinesSkipped ==
    (/\ args.regions = <<>>
     /\ args.regions_file # None
     /\ pc # "start"
     /\ \A i \in DOMAIN DataLines : LineOk(DataLines[i])) =>
        /\ pc # "error"
        /\ Len(regions) = Len(DataLines)
        /\ \A i \in DOMAIN DataLines :
              Times(LineInterval(DataLines[i]), regions)
                  = Times(LineInterval(DataLines[i]),
                          [k \in DOMAIN DataLines |-> LineInterval(DataLines[k])])

\* ------------------------------------------------------------ C9
\* C9: with regions and no_duplicates=False one range fetch per region is
\* issued, the regions are in sorted order, the output is the concatenation
\* of the fetched sequences (a record returned for k regions appears k
\* times), and the cursor is never touched.
C9_ChainConcatenates ==
    ChainMode =>
        /\ IsSorted(regions)
        /\ issued = [i \in DOMAIN regions |-> i]
        /\ prev_chrom_id = NoChrom /\ prev_start = -1
        /\ pc = "done" =>
              /\ OutRecs = Concat(Fetches(regions))
              /\ \A r \in src :
                    Times(r, OutRecs)
                        = Cardinality({i \in DOMAIN regions : r \in Range(Fetched(i))})

\* C9 witness: a finished run with no_duplicates=False that delivered one
\* record twice.
C9_Witness ==
    /\ ChainMode /\ pc = "done"
    /\ \E r \in src : Times(r, OutRecs) >= 2

\* ------------------------------------------------------------ C10
\* the records the fetch of region i has delivered so far
Delivered(i) ==
    IF pc = "iter" /\ i = ri
    THEN Range(SubSeq(Fetched(i), 1, Len(Fetched(i)) - Len(iters[ri])))
    ELSE Range(Fetched(i))

\* C10: in dedup mode every record a fetch has delivered has been yielded
\* exactly once, in that region or an earlier one of the same chromosome.
C10_NoRecordLost ==
    DedupMode =>
        \A i \in 1..ri : \A r \in Delivered(i) :
            /\ Times(r, OutRecs) = 1
            /\ \E k \in DOMAIN out :
                  /\ out[k].rec = r
                  /\ out[k].ri <= i
                  /\ regions[out[k].ri].chrom_id = regions[i].chrom_id

\* C10 witness: a finished dedup run over three regions in which two of them
\* returned a record that the output holds once.
C10_Witness ==
    /\ DedupMode /\ pc = "done"
    /\ Len(regions) = 3
    /\ \E r \in src :
        /\ Cardinality({i \in DOMAIN regions : r \in Range(Fetched(i))}) >= 2
        /\ Times(r, OutRecs) = 1
    /\ Len(out) = 2

====
